---- MODULE Spec2Model ----
(***************************************************************************)
(* State-machine model of the pg-workflows orchestrator                    *)
(* (src/src/engine.ts, src/src/db/queries.ts).                             *)
(*                                                                         *)
(* One workflow run row, the workflow-run queue and the dispatcher         *)
(* workers that replay the handler against the persisted timeline.         *)
(* Every action is one database interaction of the code (one statement,    *)
(* or one BEGIN..COMMIT transaction section), so that the interleavings    *)
(* of concurrent dispatches and API calls are the ones the code allows.    *)
(*                                                                         *)
(* Database semantics: READ COMMITTED.  runStep wraps its work in          *)
(* withPostgresTransaction and takes the row lock with SELECT FOR UPDATE;  *)
(* the lock is held, and its writes stay invisible, until COMMIT or        *)
(* ROLLBACK.  Every other write is a single autocommitted UPDATE, which    *)
(* waits for the row lock; plain SELECTs never wait.                       *)
(***************************************************************************)
EXTENDS Integers, Sequences, FiniteSets, Bags, TLC

(***************************************************************************)
(* Bounds                                                                  *)
(***************************************************************************)
NumWorkers == 2      \* dispatcher workers subscribed to workflow-run
MaxApiCalls == 3     \* pause / cancel / triggerEvent / resume calls
MaxRacingApiCalls == 2 \* of which made while dispatches are in progress (Spec)
MaxThrows == 2       \* times a step body may throw
MaxRetriesOpt == 1   \* largest options.retries passed to startWorkflow
MaxRuns == 2         \* runs started with the same workflow id and idempotency key
MaxFailedStarts == 1 \* startWorkflow calls that fail
MaxListLimit == 102  \* largest limit passed to getRuns
MaxNegativeLimit == 2 \* size of the most negative limit passed to getRuns
MaxRegisterErrors == 2 \* registerWorkflow calls that fail
MaxCronRuns == 3     \* runs of the cron workflow, cron-triggered or started through the API
MaxBackoffRetries == 3 \* largest options.retries of the runs whose retry delays are followed
MaxTimerDispatches == 4 \* dispatches of a run of "timer" that are followed
MaxEngineCalls == 5     \* calls of start, stop and startWorkflow on one engine
MaxBatchSize == 2       \* largest batchSize passed to start
MaxTableRows == 4       \* matching rows of the table that is paged through
MaxCreatedAt == 2       \* distinct created_at values of those rows
MaxPagingLimit == 2     \* largest limit of the paging loop
MaxMigrationRuns == 3  \* runMigrations calls of the current version
MaxRows == 3           \* rows inserted into workflow_runs while the schema is followed
MaxMatching == 103   \* largest number of rows that match a getRuns filter

(***************************************************************************)
(* Constants of the program                                                *)
(***************************************************************************)
PAUSE_EVENT_NAME == "__internal_pause"
\* getWorkflowRuns: Math.min(Math.max(limit, 1), 100)
MaxPageSize == 100
MinPageSize == 1

Undefined == "undefined"
EmptyObject == "{}"

RUNNING == "running"
PAUSED == "paused"
COMPLETED == "completed"
FAILED == "failed"
CANCELLED == "cancelled"

Workers == 1..NumWorkers
NoWorker == 0

(***************************************************************************)
(* Registered workflow definitions: the static step list the analyzer      *)
(* infers from the handler, and the step.* calls the handler makes along   *)
(* its control path.  "main" runs a step, waits for an event, then runs a  *)
(* step whose body may throw.  "retry" is a single step whose body may     *)
(* throw, defined with concurrency {limit: 1}.  "conditional" has a single *)
(* static step inside a conditional the input does not take.  "manual" is  *)
(* a single step.pause, a wait for the internal pause event.  The          *)
(* optional concurrency option is a set with at most one element.  The     *)
(* lifecycle hooks of "retry" throw whenever they are invoked, those of    *)
(* the other workflows return.  "conditional" has an input schema, an      *)
(* optional set like concurrency, that accepts the input "ok" only.        *)
(* "empty" is a definition whose handler has no step at all.  "main" is    *)
(* defined with the retry option {backoff: {factor: 10, minDelay: 500,     *)
(* maxDelay: 1500, jitter: false}}, again an optional set.                 *)
(***************************************************************************)
RunCall(id) == [type |-> "run", id |-> id, eventName |-> Undefined]
WaitForCall(id, eventName) == [type |-> "waitFor", id |-> id, eventName |-> eventName]
\* step.waitUntil(id, {date}) waits for the event `__wait_until_${id}`
WaitUntilEventName(id) == "__wait_until_" \o id
WaitUntilCall(id) == [type |-> "waitUntil", id |-> id, eventName |-> WaitUntilEventName(id)]

workflows ==
  [main |-> [steps |-> <<"A", "W", "B">>,
             calls |-> <<RunCall("A"), WaitForCall("W", "e"), RunCall("B")>>,
             concurrency |-> {}, hooksThrow |-> FALSE, inputSchema |-> {},
             retry |-> {[factor |-> 10, minDelay |-> 500, maxDelay |-> 1500]}],
   retry |-> [steps |-> <<"B">>,
              calls |-> <<RunCall("B")>>,
              concurrency |-> {[limit |-> 1]}, hooksThrow |-> TRUE, inputSchema |-> {},
              retry |-> {}],
   conditional |-> [steps |-> <<"A">>,
                    calls |-> <<>>,
                    concurrency |-> {}, hooksThrow |-> FALSE,
                    inputSchema |-> {[accepts |-> {"ok"}]},
                    retry |-> {}],
   manual |-> [steps |-> <<"W">>,
               calls |-> <<WaitForCall("W", PAUSE_EVENT_NAME)>>,
               concurrency |-> {}, hooksThrow |-> FALSE, inputSchema |-> {},
               retry |-> {}],
   timer |-> [steps |-> <<"W">>,
              calls |-> <<WaitUntilCall("W")>>,
              concurrency |-> {}, hooksThrow |-> FALSE, inputSchema |-> {},
              retry |-> {}],
   branch |-> [steps |-> <<"A", "B">>,
               calls |-> <<RunCall("A")>>,
               concurrency |-> {}, hooksThrow |-> FALSE, inputSchema |-> {},
               retry |-> {}],
   empty |-> [steps |-> <<>>,
              calls |-> <<>>,
              concurrency |-> {}, hooksThrow |-> FALSE, inputSchema |-> {},
              retry |-> {}]]

WorkflowIds == DOMAIN workflows
\* the workflows the clients of the general specifications start; a run of
\* "timer" is dispatched without end and is followed in TimerSpec
StartedIds == WorkflowIds \ {"timer"}
\* workflow ids a client may pass to startWorkflow, one of them unregistered
RequestedIds == WorkflowIds \cup {"unknown"}
\* inputs a client may pass to startWorkflow
Inputs == {"ok", "bad"}
StepIds == {"A", "W", "B"}

\* the step body of "B" is the one that may throw
MayThrow(stepId) == stepId = "B"
\* value a step body returns
BodyResult(stepId) == "r" \o stepId
\* value a handler returns that makes no step.* call
HandlerResult == "done"

EmptyTimeline ==
  [out |-> [s \in StepIds |-> Undefined], waitFor |-> [s \in StepIds |-> Undefined]]

VARIABLES
  created,     \* the run row has been inserted
  row,         \* the persisted (committed) workflow_runs row
  queue,       \* bag of jobs in the workflow-run queue
  lock,        \* worker holding the row lock (runStep transaction), or NoWorker
  pc,          \* per worker: position in handleWorkflowRun
  job,         \* per worker: the job being dispatched
  run,         \* per worker: the local `run` variable of handleWorkflowRun
  loaded,      \* per worker: the run as the dispatch first loaded it (history)
  ip,          \* per worker: index of the next step.* call of the handler
  returned,    \* per worker: value the last step.* call returned to the handler
  apiCalls,    \* API calls made so far
  throws,      \* step body throws so far
  invoked,     \* per step: number of times its body began executing
  succeeded,   \* per step: number of times its body returned successfully
  observed,    \* hook invocations, retry jobs sent and errors rethrown to the queue
  listing,     \* the last getRuns call: limit, matching rows, items returned
  registry,    \* definitions registered with registerWorkflow, failed registrations
  cronRuns,    \* runs of one cron workflow, the clock and the schedule contexts built
  database,    \* the schema objects and rows of workflow_runs, and runMigrations' position
  boss,        \* the engine's started flag, its workers, and the jobs delivered to them
  paging,      \* a getRuns pagination: the table, the cursor and the items returned so far
  starts       \* startWorkflow calls of one workflow id and idempotency key:
               \* committed run rows, committed initial jobs, calls whose
               \* enqueue failed, calls rejected before the transaction

engineVars == <<created, row, queue, lock, pc, job, run, loaded, ip, returned, apiCalls, throws, invoked, succeeded, observed, starts>>

\* the variables of the features modelled on their own, which no dispatcher step touches
featureVars == <<listing, registry, cronRuns, database, boss, paging>>

vars == <<engineVars, featureVars>>

NoJob == [event |-> Undefined, data |-> Undefined]

\* the resource id every run is started with, and those API callers pass:
\* the run's, another one, the empty string, or none
RunResourceId == "r1"
ResourceIds == {"r1", "r2", "", Undefined}

InitialRow ==
  [workflowId |-> "main", resourceId |-> RunResourceId, status |-> RUNNING, currentStepId |-> "A",
   timeline |-> EmptyTimeline, retryCount |-> 0, maxRetries |-> 0,
   output |-> Undefined, error |-> Undefined, pausedAt |-> FALSE]

NoListing == [called |-> FALSE, limit |-> 0, matching |-> 0, items |-> 0]

EmptyRegistry == [definitions |-> {}, errors |-> 0]

NoCronRuns == [runs |-> <<>>, clock |-> 1, schedule |-> {}]

\* an empty database on which runMigrations has not run; `found` is the schema
\* the first runMigrations started from
NoDatabase == [objects |-> {}, rows |-> 0, pc |-> "idle", runs |-> 0, errors |-> 0, found |-> {}]

\* a constructed engine: not started, no worker, no job
NotStarted ==
  [started |-> FALSE, registered |-> FALSE, workers |-> 0, batchSize |-> 0, asEngine |-> FALSE,
   queued |-> 0, dispatched |-> 0, acknowledged |-> 0, calls |-> 0, errors |-> 0]

\* no matching row, no getRuns call made yet; the cursor is a set of at most one id
NoPaging == [called |-> FALSE, table |-> <<>>, limit |-> 0, cursor |-> {}, items |-> <<>>, done |-> FALSE]

NothingObserved ==
  [onStart |-> 0, onSuccess |-> 0, onFailure |-> 0, onComplete |-> 0,
   retryJobs |-> 0, rethrown |-> 0, notFound |-> 0, retryDelay |-> 0]

Init ==
  /\ created = FALSE
  /\ row = InitialRow
  /\ queue = EmptyBag
  /\ lock = NoWorker
  /\ pc = [w \in Workers |-> "idle"]
  /\ job = [w \in Workers |-> NoJob]
  /\ run = [w \in Workers |-> InitialRow]
  /\ loaded = [w \in Workers |-> InitialRow]
  /\ ip = [w \in Workers |-> 0]
  /\ returned = [w \in Workers |-> Undefined]
  /\ apiCalls = 0
  /\ throws = 0
  /\ invoked = [s \in StepIds |-> 0]
  /\ succeeded = [s \in StepIds |-> 0]
  /\ observed = NothingObserved
  /\ starts = [rows |-> 0, jobs |-> 0, failed |-> 0, rejected |-> 0]
  /\ listing = NoListing
  /\ registry = EmptyRegistry
  /\ cronRuns = NoCronRuns
  /\ database = NoDatabase
  /\ boss = NotStarted
  /\ paging = NoPaging

(***************************************************************************)
(* Helpers                                                                 *)
(***************************************************************************)
Send(j) == queue (+) SetToBag({j})

\* merge(timeline, {[stepId]: {output, timestamp}})
MergeOutput(timeline, stepId, output) ==
  [timeline EXCEPT !.out[stepId] = output]

\* merge(timeline, {[`${stepId}-wait-for`]: {waitFor: {eventName}, timestamp}})
MergeWaitFor(timeline, stepId, eventName) ==
  [timeline EXCEPT !.waitFor[stepId] = eventName]

\* timelineStep?.output !== undefined
HasOutput(timeline, stepId) == timeline.out[stepId] # Undefined

\* step.* short-circuits on these persisted statuses
ShortCircuits(status) == status \in {CANCELLED, PAUSED, FAILED}

\* steps[steps.length - 1]?.id
LastStepId(workflowId) ==
  LET steps == workflows[workflowId].steps IN steps[Len(steps)]

Calls(w) == workflows[run[w].workflowId].calls

(***************************************************************************)
(* startWorkflow: insert the row and enqueue the first job, one transaction *)
(***************************************************************************)
\* faulty variant of StartTransaction: the inserted row survives a failed enqueue
StartTransactionNoRollback(s, sendOk) ==
  IF sendOk
    THEN [s EXCEPT !.rows = @ + 1, !.jobs = @ + 1]
    ELSE [s EXCEPT !.rows = @ + 1, !.failed = @ + 1]

\* withPostgresTransaction around insertWorkflowRun and boss.send: COMMIT makes
\* the row and the job visible together, a throw of boss.send rolls both back
StartTransaction(s, sendOk) ==
  IF sendOk
    THEN [s EXCEPT !.rows = @ + 1, !.jobs = @ + 1]
    ELSE [s EXCEPT !.failed = @ + 1]

\* inputSchema.safeParse(input) fails
SchemaRejects(workflowId, input) ==
  \E schema \in workflows[workflowId].inputSchema : input \notin schema.accepts

\* faulty variant of StartError: the input is not validated
StartErrorNoSchema(workflowId, input) ==
  IF workflowId \notin WorkflowIds
    THEN "Unknown workflow"
    ELSE IF Len(workflows[workflowId].steps) = 0
      THEN "Workflow has no steps"
      ELSE Undefined

\* the WorkflowEngineError _createWorkflowRun throws before it opens the
\* transaction, or undefined
StartError(workflowId, input) ==
  IF workflowId \notin WorkflowIds
    THEN "Unknown workflow"
    ELSE IF Len(workflows[workflowId].steps) = 0
      THEN "Workflow has no steps"
      ELSE IF SchemaRejects(workflowId, input)
        THEN "Invalid input"
        ELSE Undefined

StartWorkflow(workflowId, retries, input) ==
  /\ ~created
  /\ StartError(workflowId, input) = Undefined
  /\ created' = TRUE
  /\ starts' = StartTransaction(starts, TRUE)
  /\ row' = [InitialRow EXCEPT !.workflowId = workflowId,
                               !.currentStepId = workflows[workflowId].steps[1],
                               !.maxRetries = retries]
  /\ queue' = Send(NoJob)
  /\ UNCHANGED <<featureVars, returned, lock, pc, job, run, loaded, ip, apiCalls, throws, invoked, succeeded, observed>>

\* startWorkflow that throws a WorkflowEngineError to the caller
StartWorkflowRejected(workflowId, input) ==
  /\ StartError(workflowId, input) # Undefined
  /\ starts.rejected < MaxFailedStarts
  /\ starts' = [starts EXCEPT !.rejected = @ + 1]
  /\ UNCHANGED <<featureVars, returned, created, row, queue, lock, pc, job, run, loaded, ip, apiCalls, throws,
                 invoked, succeeded, observed>>

\* startWorkflow called again with the workflow id and idempotency key of the
\* run already created: _createWorkflowRun takes no idempotency key, it inserts
\* another run and enqueues that run's initial job (the other run is counted,
\* its dispatches are not followed)
StartWorkflowAgain ==
  /\ created
  /\ starts.rows < MaxRuns
  /\ starts' = StartTransaction(starts, TRUE)
  /\ UNCHANGED <<featureVars, returned, created, row, queue, lock, pc, job, run, loaded, ip, apiCalls, throws,
                 invoked, succeeded, observed>>

\* startWorkflow whose boss.send throws: ROLLBACK, the error reaches the caller
StartWorkflowSendFails ==
  /\ starts.failed < MaxFailedStarts
  /\ starts' = StartTransaction(starts, FALSE)
  /\ UNCHANGED <<featureVars, returned, created, row, queue, lock, pc, job, run, loaded, ip, apiCalls, throws,
                 invoked, succeeded, observed>>

(***************************************************************************)
(* API calls on an existing run                                            *)
(***************************************************************************)
\* the branch `resourceId ? ... : ...` takes: undefined and '' are falsy
Truthy(value) == value \notin {Undefined, ""}

\* WHERE id = $1 AND resource_id = $2 when a resource id is passed, else
\* WHERE id = $1: the statement finds the run's row
Selects(isCreated, r, resourceId) ==
  /\ isCreated
  /\ Truthy(resourceId) => r.resourceId = resourceId

\* getRun / updateRun: if (!run) throw new WorkflowRunNotFoundError(runId)
NotFoundThrown == [observed EXCEPT !.notFound = @ + 1]

\* getRun({runId, resourceId})
GetRun(resourceId) ==
  /\ apiCalls < MaxApiCalls
  /\ apiCalls' = apiCalls + 1
  /\ observed' = IF Selects(created, row, resourceId) THEN observed ELSE NotFoundThrown
  /\ UNCHANGED <<featureVars, returned, created, row, queue, lock, pc, job, run, loaded, ip, throws, invoked, succeeded, starts>>

\* pauseWorkflow({runId, resourceId}): UPDATE status = paused, paused_at = now
PauseWorkflowAs(resourceId) ==
  /\ apiCalls < MaxApiCalls
  /\ apiCalls' = apiCalls + 1
  /\ IF Selects(created, row, resourceId)
       THEN /\ lock = NoWorker
            /\ row' = [row EXCEPT !.status = PAUSED, !.pausedAt = TRUE]
            /\ UNCHANGED observed
       ELSE /\ observed' = NotFoundThrown
            /\ UNCHANGED row
  /\ UNCHANGED <<featureVars, returned, created, queue, lock, pc, job, run, loaded, ip, throws, invoked, succeeded, starts>>

\* pauseWorkflow by the owner of the run
PauseWorkflow == created /\ PauseWorkflowAs(row.resourceId)

\* cancelWorkflow({runId, resourceId}): UPDATE status = cancelled
CancelWorkflowAs(resourceId) ==
  /\ apiCalls < MaxApiCalls
  /\ apiCalls' = apiCalls + 1
  /\ IF Selects(created, row, resourceId)
       THEN /\ lock = NoWorker
            /\ row' = [row EXCEPT !.status = CANCELLED]
            /\ UNCHANGED observed
       ELSE /\ observed' = NotFoundThrown
            /\ UNCHANGED row
  /\ UNCHANGED <<featureVars, returned, created, queue, lock, pc, job, run, loaded, ip, throws, invoked, succeeded, starts>>

\* cancelWorkflow by the owner of the run
CancelWorkflow == created /\ CancelWorkflowAs(row.resourceId)

\* triggerEvent({runId, resourceId, eventName, data}): getRun, then send a
\* job carrying the event
TriggerEventAs(resourceId, eventName, data) ==
  /\ apiCalls < MaxApiCalls
  /\ apiCalls' = apiCalls + 1
  /\ IF Selects(created, row, resourceId)
       THEN /\ queue' = Send([event |-> eventName, data |-> data])
            /\ UNCHANGED observed
       ELSE /\ observed' = NotFoundThrown
            /\ UNCHANGED queue
  /\ UNCHANGED <<featureVars, returned, created, row, lock, pc, job, run, loaded, ip, throws, invoked, succeeded, starts>>

\* triggerEvent by the owner of the run
TriggerEvent(eventName, data) == created /\ TriggerEventAs(row.resourceId, eventName, data)

\* resumeWorkflow: triggerEvent with the internal pause event and data {}
ResumeWorkflow == TriggerEvent(PAUSE_EVENT_NAME, EmptyObject)

\* triggerEvent({runId, resourceId, eventName: '__internal_pause'}), no data
TriggerPauseEvent == TriggerEvent(PAUSE_EVENT_NAME, Undefined)

(***************************************************************************)
(* registerWorkflow / unregisterWorkflow on the engine's workflows map.    *)
(* A definition carries its id, the ids of the step.* calls in the source  *)
(* of its handler, and the optional cron and inputSchema options (sets     *)
(* with at most one element).                                              *)
(***************************************************************************)
Definitions ==
  [id : {"w1", "w2"},
   stepCalls : {<<"A">>, <<"A", "B">>, <<"A", "A">>},
   cron : {{}, {[expression |-> "* * * * *"]}, {[expression |-> "not a cron"]}},
   inputSchema : {{}, {[acceptsEmpty |-> TRUE]}, {[acceptsEmpty |-> FALSE]}}]

\* parseWorkflowHandler: if (steps.has(id)) throw new Error('Duplicate step ID ...')
ParseError(stepCalls) ==
  \E i, k \in 1..Len(stepCalls) : i < k /\ stepCalls[i] = stepCalls[k]

\* CronExpressionParser.parse(expression) throws
CronParseError(expression) == expression = "not a cron"

\* this.workflows.has(id)
Has(definitions, id) == \E d \in definitions : d.id = id

\* faulty variant of RegisterError: an id already registered is accepted
RegisterErrorNoDuplicateCheck(definitions, definition) ==
  IF ParseError(definition.stepCalls)
    THEN "Duplicate step ID"
    ELSE IF \E cron \in definition.cron : CronParseError(cron.expression)
      THEN "Invalid cron expression"
      ELSE IF definition.cron # {} /\ \E schema \in definition.inputSchema : ~schema.acceptsEmpty
        THEN "inputSchema rejects empty input"
        ELSE Undefined

\* the error registerWorkflow throws before this.workflows.set, or undefined
RegisterError(definitions, definition) ==
  IF Has(definitions, definition.id)
    THEN "Workflow is already registered"
    ELSE IF ParseError(definition.stepCalls)
      THEN "Duplicate step ID"
      ELSE IF \E cron \in definition.cron : CronParseError(cron.expression)
        THEN "Invalid cron expression"
        ELSE IF definition.cron # {} /\ \E schema \in definition.inputSchema : ~schema.acceptsEmpty
          THEN "inputSchema rejects empty input"
          ELSE Undefined

\* this.workflows.set(definition.id, ...): the entry of the id is replaced
MapSet(definitions, definition) ==
  {d \in definitions : d.id # definition.id} \cup {definition}

RegisterWorkflow(definition) ==
  /\ IF RegisterError(registry.definitions, definition) # Undefined
       THEN /\ registry.errors < MaxRegisterErrors
            /\ registry' = [registry EXCEPT !.errors = @ + 1]
       ELSE registry' = [registry EXCEPT !.definitions = MapSet(@, definition)]
  /\ UNCHANGED <<engineVars, listing, cronRuns, database, boss, paging>>

\* this.workflows.delete(workflowId)
UnregisterWorkflow(workflowId) ==
  /\ registry' = [registry EXCEPT !.definitions = {d \in @ : d.id # workflowId}]
  /\ UNCHANGED <<engineVars, listing, cronRuns, database, boss, paging>>

NextRegistry ==
  \/ \E definition \in Definitions : RegisterWorkflow(definition)
  \/ \E workflowId \in {"w1", "w2"} : UnregisterWorkflow(workflowId)

RegistrySpec == Init /\ [][NextRegistry]_vars

(***************************************************************************)
(* The runs of one workflow defined with a cron option: created by the     *)
(* cron worker (cron column set) or by startWorkflow (cron column null),   *)
(* completed at the time of the clock, and the schedule context built for  *)
(* a dispatch of a cron-triggered run.  Optional timestamps are sets with  *)
(* at most one element.                                                    *)
(***************************************************************************)
\* _createWorkflowRun, called by the cron worker (cron set) or by startWorkflow
CreateRun(cron) ==
  /\ Len(cronRuns.runs) < MaxCronRuns
  /\ cronRuns' = [cronRuns EXCEPT
                    !.runs = Append(@, [cron |-> cron, status |-> RUNNING, completedAt |-> {}])]
  /\ UNCHANGED <<engineVars, listing, registry, database, boss, paging>>

\* the dispatch completes run i: status = completed, completedAt = new Date()
CompleteRun(i) ==
  /\ i \in 1..Len(cronRuns.runs)
  /\ cronRuns.runs[i].status = RUNNING
  /\ cronRuns' = [cronRuns EXCEPT !.runs[i].status = COMPLETED,
                                  !.runs[i].completedAt = {cronRuns.clock},
                                  !.clock = @ + 1]
  /\ UNCHANGED <<engineVars, listing, registry, database, boss, paging>>

\* SELECT * FROM workflow_runs WHERE workflow_id = $1 AND status = 'completed'
\* ORDER BY completed_at DESC LIMIT 1, as the set of the row found
GetWorkflowLastRun(runs) ==
  {i \in 1..Len(runs) :
     /\ runs[i].status = COMPLETED
     /\ \A k \in 1..Len(runs) :
          runs[k].status = COMPLETED
            => \A t \in runs[i].completedAt, u \in runs[k].completedAt : t >= u}

\* lastTimestamp: lastRun?.completedAt ?? undefined
LastTimestamp(runs) == UNION {runs[i].completedAt : i \in GetWorkflowLastRun(runs)}

\* a dispatch of run i: schedule = run.cron ? buildScheduleContext(run) : undefined
BuildScheduleContext(i) ==
  /\ i \in 1..Len(cronRuns.runs)
  /\ cronRuns.runs[i].cron
  /\ cronRuns' = [cronRuns EXCEPT
                    !.schedule = {[run |-> i, lastTimestamp |-> LastTimestamp(cronRuns.runs)]}]
  /\ UNCHANGED <<engineVars, listing, registry, database, boss, paging>>

NextCron ==
  \/ \E cron \in BOOLEAN : CreateRun(cron)
  \/ \E i \in 1..MaxCronRuns : CompleteRun(i)
  \/ \E i \in 1..MaxCronRuns : BuildScheduleContext(i)

CronSpec == Init /\ [][NextCron]_vars

(***************************************************************************)
(* getRuns: the page of the matching rows, counted                         *)
(***************************************************************************)
Min(a, b) == IF a < b THEN a ELSE b
Max(a, b) == IF a > b THEN a ELSE b

\* Math.min(Math.max(limit, 1), 100) + 1, the LIMIT of the SELECT
ActualLimit(limit) == Min(Max(limit, MinPageSize), MaxPageSize) + 1

\* rows.slice(0, end).length for an array of n rows
SliceLength(n, end) == IF end >= 0 THEN Min(end, n) ELSE Max(n + end, 0)

\* number of items getWorkflowRuns returns when `matching` rows match
ItemsReturned(limit, matching) ==
  LET rows == Min(matching, ActualLimit(limit))
      hasMore == rows > limit
  IN IF hasMore THEN SliceLength(rows, limit) ELSE rows

\* one getRuns call against a table in which `matching` rows match the filter
GetRuns(limit, matching) ==
  /\ ~listing.called
  /\ listing' = [called |-> TRUE, limit |-> limit, matching |-> matching,
                 items |-> ItemsReturned(limit, matching)]
  /\ UNCHANGED <<engineVars, registry, cronRuns, database, boss, paging>>

NextGetRuns ==
  \E limit \in (0 - MaxNegativeLimit)..MaxListLimit, matching \in 0..MaxMatching : GetRuns(limit, matching)

GetRunsSpec == Init /\ [][NextGetRuns]_vars

(***************************************************************************)
(* runMigrations, statement by statement, against a database that holds    *)
(* no table, the table of the earlier version, or the current schema       *)
(***************************************************************************)
TableName == "workflow_runs"
BtreeIndexes ==
  {"workflow_runs_workflow_id_idx", "workflow_runs_created_at_idx", "workflow_runs_resource_id_idx"}
CronColumns == {"cron", "timezone"}
CronIndex == "idx_workflow_runs_cron_completed"

\* what the earlier version of runMigrations leaves, and what the current one does
PreCronSchema == {TableName} \cup BtreeIndexes
CurrentSchema == PreCronSchema \cup CronColumns \cup {CronIndex}

\* the earlier runMigrations: the table without the cron columns and its three indexes
RunMigrationsEarlier ==
  /\ database.pc = "idle"
  /\ database.runs = 0
  /\ TableName \notin database.objects
  /\ database' = [database EXCEPT !.objects = @ \cup PreCronSchema]
  /\ UNCHANGED <<engineVars, listing, registry, cronRuns, boss, paging>>

\* insertWorkflowRun, as far as the schema is concerned: one more row
InsertWorkflowRun ==
  /\ TableName \in database.objects
  /\ database.rows < MaxRows
  /\ database' = [database EXCEPT !.rows = @ + 1]
  /\ UNCHANGED <<engineVars, listing, registry, cronRuns, boss, paging>>

\* PostgreSQL raises when a CREATE or ADD COLUMN names an object that exists,
\* or an index or a column is added to a table that does not
Raises(objects, creates, onTable) ==
  \/ creates \cap objects # {}
  \/ onTable /\ TableName \notin objects

\* db.executeSql of one DDL statement: the error leaves runMigrations
Executed(db, creates, onTable, next) ==
  IF Raises(db.objects, creates, onTable)
    THEN [db EXCEPT !.pc = "idle", !.errors = @ + 1]
    ELSE [db EXCEPT !.objects = @ \cup creates,
                    !.pc = next,
                    !.runs = IF next = "idle" THEN @ + 1 ELSE @]

\* runMigrations returns
Migrated(db) == [db EXCEPT !.pc = "idle", !.runs = @ + 1]

TableExists(objects) == TableName \in objects
CronColumnExists(objects) == "cron" \in objects
CronIndexNeverFound(objects) == FALSE
CronIndexExists(objects) == CronIndex \in objects

\* the engine's start() calls runMigrations
RunMigrationsBegin ==
  /\ database.pc = "idle"
  /\ database.runs + database.errors < MaxMigrationRuns
  /\ database' = [database EXCEPT !.pc = "tableExists",
                                  !.found = IF database.runs + database.errors = 0
                                              THEN {database.objects} ELSE @]
  /\ UNCHANGED <<engineVars, listing, registry, cronRuns, boss, paging>>

\* the next statement of runMigrations
RunMigrationsStatement(db) ==
  CASE db.pc = "tableExists" ->
         [db EXCEPT !.pc = IF TableExists(db.objects) THEN "cronColumnExists" ELSE "createTable"]
    [] db.pc = "createTable" ->
         Executed(db, {TableName} \cup CronColumns, FALSE, "createWorkflowIdIdx")
    [] db.pc = "createWorkflowIdIdx" ->
         Executed(db, {"workflow_runs_workflow_id_idx"}, TRUE, "createCreatedAtIdx")
    [] db.pc = "createCreatedAtIdx" ->
         Executed(db, {"workflow_runs_created_at_idx"}, TRUE, "createResourceIdIdx")
    [] db.pc = "createResourceIdIdx" ->
         Executed(db, {"workflow_runs_resource_id_idx"}, TRUE, "createCronIdx")
    [] db.pc = "createCronIdx" ->
         Executed(db, {CronIndex}, TRUE, "cronColumnExists")
    [] db.pc = "cronColumnExists" ->
         [db EXCEPT !.pc = IF CronColumnExists(db.objects) THEN "cronIndexExists" ELSE "addCron"]
    [] db.pc = "addCron" ->
         Executed(db, {"cron"}, TRUE, "addTimezone")
    [] db.pc = "addTimezone" ->
         Executed(db, {"timezone"}, TRUE, "cronIndexExists")
    [] db.pc = "cronIndexExists" ->
         IF CronIndexExists(db.objects) THEN Migrated(db)
                                        ELSE [db EXCEPT !.pc = "createCronIdxLate"]
    [] db.pc = "createCronIdxLate" ->
         Executed(db, {CronIndex}, TRUE, "idle")

RunMigrationsStep ==
  /\ database.pc # "idle"
  /\ database' = RunMigrationsStatement(database)
  /\ UNCHANGED <<engineVars, listing, registry, cronRuns, boss, paging>>

NextMigration ==
  \/ RunMigrationsEarlier
  \/ InsertWorkflowRun
  \/ RunMigrationsBegin
  \/ RunMigrationsStep

MigrationSpec == Init /\ [][NextMigration]_vars

(***************************************************************************)
(* start, stop and the auto-start of startWorkflow, for an engine          *)
(* constructed with its workflows, and the delivery of job batches to the  *)
(* workers that start subscribed.  Jobs are counted, not told apart.       *)
(***************************************************************************)
\* +(process.env.WORKFLOW_RUN_WORKERS ?? 3)
numWorkers == 3

\* start(asEngine, {batchSize}) on the engine state b: returns at once when
\* started; else registers the constructor's workflows, which throws when
\* they are registered already, subscribes the workers when asked to, and
\* sets _started
Started(b, asEngine, batchSize) ==
  IF b.started THEN b
  ELSE IF b.registered THEN [b EXCEPT !.errors = @ + 1]
  ELSE [b EXCEPT !.registered = TRUE,
                 !.workers = IF asEngine THEN numWorkers ELSE 0,
                 !.batchSize = IF asEngine THEN batchSize ELSE 0,
                 !.started = TRUE]

\* start(true, {batchSize}) called by the application; asEngine records that
\* such a call has returned since the last stop()
Start(asEngine, batchSize) ==
  /\ boss.calls < MaxEngineCalls
  /\ LET b == Started(boss, asEngine, batchSize) IN
       boss' = [b EXCEPT !.calls = @ + 1,
                         !.asEngine = @ \/ (asEngine /\ b.errors = boss.errors)]
  /\ UNCHANGED <<engineVars, listing, registry, cronRuns, database, paging>>

\* stop(): boss.stop() ends the workers, _started = false
Stop ==
  /\ boss.calls < MaxEngineCalls
  /\ boss' = [boss EXCEPT !.calls = @ + 1, !.started = FALSE, !.workers = 0,
                          !.batchSize = 0, !.asEngine = FALSE]
  /\ UNCHANGED <<engineVars, listing, registry, cronRuns, database, paging>>

\* startWorkflow: start(false, {batchSize: options?.batchSize ?? 1}) unless
\* started, then the run's first job is enqueued
CreateWorkflowRun(batchSize) ==
  /\ boss.calls < MaxEngineCalls
  /\ LET b == IF boss.started THEN boss ELSE Started(boss, FALSE, batchSize) IN
       boss' = [b EXCEPT !.calls = @ + 1,
                         !.queued = IF b.started THEN @ + 1 ELSE @]
  /\ UNCHANGED <<engineVars, listing, registry, cronRuns, database, paging>>

\* a worker is handed a batch of n jobs: handleWorkflowRun([job]) dispatches
\* the first one, and its return acknowledges the batch
Work(n) ==
  /\ boss.workers > 0
  /\ n <= boss.batchSize
  /\ n <= boss.queued
  /\ boss' = [boss EXCEPT !.queued = @ - n,
                          !.dispatched = @ + 1,
                          !.acknowledged = @ + n]
  /\ UNCHANGED <<engineVars, listing, registry, cronRuns, database, paging>>

NextLifecycle ==
  \/ \E asEngine \in BOOLEAN, batchSize \in 1..MaxBatchSize : Start(asEngine, batchSize)
  \/ Stop
  \/ \E batchSize \in 1..MaxBatchSize : CreateWorkflowRun(batchSize)
  \/ \E n \in 1..MaxBatchSize : Work(n)

LifecycleSpec == Init /\ [][NextLifecycle]_vars /\ WF_vars(\E n \in 1..MaxBatchSize : Work(n))

(***************************************************************************)
(* Paging through getRuns with startingAfter = the previous nextCursor.    *)
(* The table is the sequence of the created_at values of the matching      *)
(* rows in insertion order; a row's id is its index.  Rows of equal        *)
(* created_at are returned by ORDER BY created_at DESC in any order.       *)
(***************************************************************************)
\* startWorkflow inserts a matching row, created_at = now, before the paging begins
InsertMatchingRun(createdAt) ==
  /\ ~paging.called
  /\ Len(paging.table) < MaxTableRows
  /\ \A i \in 1..Len(paging.table) : paging.table[i] <= createdAt
  /\ paging' = [paging EXCEPT !.table = Append(@, createdAt)]
  /\ UNCHANGED <<engineVars, listing, registry, cronRuns, database, boss>>

\* the rows the WHERE clause keeps: all of them, or with startingAfter those
\* with created_at < the cursor row's created_at
Selected(table, cursor) ==
  {i \in 1..Len(table) : \A c \in cursor : table[i] < table[c]}

\* the results ORDER BY created_at DESC may give for a set of rows
Ordered(table, ids) ==
  {o \in [1..Cardinality(ids) -> ids] :
     /\ \A a, b \in 1..Cardinality(ids) : a # b => o[a] # o[b]
     /\ \A a, b \in 1..Cardinality(ids) : a < b => table[o[a]] >= table[o[b]]}

\* rows.slice(0, n)
Slice(rows, n) == SubSeq(rows, 1, SliceLength(Len(rows), n))

\* one getRuns({limit, startingAfter: cursor}) call of the paging loop
GetRunsPage(limit) ==
  /\ paging.table # <<>>
  /\ ~paging.done
  /\ paging.called => limit = paging.limit
  /\ \E o \in Ordered(paging.table, Selected(paging.table, paging.cursor)) :
       LET rows == Slice(o, ActualLimit(limit))
           hasMore == Len(rows) > limit
           items == IF hasMore THEN Slice(rows, limit) ELSE rows
           nextCursor == IF hasMore /\ Len(items) > 0 THEN {items[Len(items)]} ELSE {}
       IN paging' = [paging EXCEPT !.called = TRUE,
                                   !.limit = limit,
                                   !.items = @ \o items,
                                   !.cursor = nextCursor,
                                   !.done = ~hasMore]
  /\ UNCHANGED <<engineVars, listing, registry, cronRuns, database, boss>>

NextPaging ==
  \/ \E createdAt \in 1..MaxCreatedAt : InsertMatchingRun(createdAt)
  \/ \E limit \in 1..MaxPagingLimit : GetRunsPage(limit)

PagingSpec == Init /\ [][NextPaging]_vars

(***************************************************************************)
(* checkProgress, a read of the run row.  Percentages are counted in       *)
(* hundredths of a percent, the precision checkProgress rounds to.         *)
(***************************************************************************)
\* Math.round(ratio * 100 * 100) / 100 of the ratio part / total
RoundedPercentage(part, total) == (2 * part * 10000 + total) \div (2 * total)

\* Math.min(percentage, 100)
CappedPercentage(percentage) == IF percentage > 10000 THEN 10000 ELSE percentage

\* timeline entries that hold an output
CompletedSteps(timeline) == Cardinality({s \in StepIds : HasOutput(timeline, s)})

\* Object.keys(run.timeline).length: output entries and wait-for entries
TimelineKeys(timeline) ==
  CompletedSteps(timeline) + Cardinality({s \in StepIds : timeline.waitFor[s] # Undefined})

\* steps.findIndex((step) => step.id === run.currentStepId), as the set of
\* the zero-based indices found first (empty when findIndex returns -1)
CurrentStepIndex(steps, currentStepId) ==
  {i \in 0..(Len(steps) - 1) :
     /\ steps[i + 1] = currentStepId
     /\ \A k \in 0..(Len(steps) - 1) : steps[k + 1] = currentStepId => i <= k}

CompletionPercentage(r) ==
  LET steps == workflows[r.workflowId].steps IN
    IF Len(steps) = 0
      THEN 0
      ELSE IF r.status = COMPLETED
        THEN 10000
        ELSE IF r.status \in {FAILED, CANCELLED}
          THEN CappedPercentage(RoundedPercentage(CompletedSteps(r.timeline), Len(steps)))
          ELSE IF CurrentStepIndex(steps, r.currentStepId) # {}
            THEN LET i == CHOOSE i \in CurrentStepIndex(steps, r.currentStepId) : TRUE
                 IN RoundedPercentage(i, Len(steps))
            ELSE CappedPercentage(RoundedPercentage(TimelineKeys(r.timeline), Len(steps)))

(***************************************************************************)
(* handleWorkflowRun, one action per database interaction                  *)
(***************************************************************************)
Idle(w) ==
  /\ pc' = [pc EXCEPT ![w] = "idle"]
  /\ job' = [job EXCEPT ![w] = NoJob]
  /\ run' = [run EXCEPT ![w] = InitialRow]
  /\ loaded' = [loaded EXCEPT ![w] = InitialRow]
  /\ ip' = [ip EXCEPT ![w] = 0]
  /\ returned' = [returned EXCEPT ![w] = Undefined]

\* if (run.retryCount === 0) invokeHook('onStart')
OnStartDue(r) == r.retryCount = 0

Invoked(hook) == [observed EXCEPT ![hook] = @ + 1]

\* how the hooks the definition of a workflow carries end when called
HookOutcome(workflowId) ==
  IF workflows[workflowId].hooksThrow THEN "threw" ELSE "returned"

\* faulty variant of InvokeHook: the hook's error is not caught
InvokeHookRethrows(outcome) == outcome

\* invokeHook: try { await hook(ctx) } catch { logger.error }, the caller
\* goes on as after a hook that returned
InvokeHook(outcome) == "returned"

\* where the dispatch goes after onStart (called inside the try block)
AfterOnStart(r) ==
  IF OnStartDue(r) /\ InvokeHook(HookOutcome(r.workflowId)) = "threw"
    THEN "catch"
    ELSE "handler"

\* the worker takes a job and loads the run (getRun); a CANCELLED run is skipped;
\* a run that is not PAUSED goes on to onStart and the handler
Dispatch(w) ==
  /\ pc[w] = "idle"
  /\ \E j \in BagToSet(queue) :
       /\ queue' = queue (-) SetToBag({j})
       /\ IF row.status = CANCELLED
            THEN Idle(w)
            ELSE /\ job' = [job EXCEPT ![w] = j]
                 /\ run' = [run EXCEPT ![w] = row]
                 /\ loaded' = [loaded EXCEPT ![w] = row]
                 /\ pc' = [pc EXCEPT ![w] = IF row.status = PAUSED THEN "unpause" ELSE AfterOnStart(row)]
                 /\ ip' = [ip EXCEPT ![w] = 1]
                 /\ returned' = [returned EXCEPT ![w] = Undefined]
  /\ observed' = IF row.status \notin {CANCELLED, PAUSED} /\ OnStartDue(row)
                   THEN Invoked("onStart")
                   ELSE observed
  /\ UNCHANGED <<featureVars, created, row, lock, apiCalls, throws, invoked, succeeded, starts>>

\* faulty variant of EventMatches: the event name is not compared
EventMatchesAnyName(r, j) ==
  /\ r.timeline.waitFor[r.currentStepId] # Undefined
  /\ r.timeline.out[r.currentStepId] = Undefined

\* waitFor && waitFor.eventName === event?.name && !hasCurrentStepOutput
EventMatches(r, j) ==
  /\ r.timeline.waitFor[r.currentStepId] # Undefined
  /\ r.timeline.waitFor[r.currentStepId] = j.event
  /\ r.timeline.out[r.currentStepId] = Undefined

\* faulty variant of EventData: the event's payload is dropped
EventDataDropped(j) == EmptyObject

\* faulty variant of EventData: a missing payload is not replaced by {}
EventDataRaw(j) == j.data

\* event?.data ?? {}
EventData(j) == IF j.data = Undefined THEN EmptyObject ELSE j.data

\* the row the dispatcher writes for a PAUSED run, from its loaded copy r
UnpausedRow(persisted, r, j) ==
  IF EventMatches(r, j)
    THEN [persisted EXCEPT !.status = RUNNING, !.pausedAt = FALSE,
                           !.timeline = MergeOutput(r.timeline, r.currentStepId, EventData(j))]
    ELSE [persisted EXCEPT !.status = RUNNING, !.pausedAt = FALSE]

\* the run was PAUSED when loaded: UPDATE to RUNNING, with the event's output if it matches
Unpause(w) ==
  /\ pc[w] = "unpause"
  /\ lock = NoWorker
  /\ row' = UnpausedRow(row, run[w], job[w])
  /\ run' = [run EXCEPT ![w] = row']
  /\ pc' = [pc EXCEPT ![w] = AfterOnStart(row')]
  /\ observed' = IF OnStartDue(row') THEN Invoked("onStart") ELSE observed
  /\ UNCHANGED <<featureVars, returned, created, queue, lock, job, loaded, ip, apiCalls, throws, invoked, succeeded, starts>>

AtCall(w, type) ==
  /\ pc[w] = "handler"
  /\ ip[w] <= Len(Calls(w))
  /\ Calls(w)[ip[w]].type = type


\* what a step.* call returns without running: undefined when the persisted
\* status short-circuits it, else the persisted output
StepReturn(persisted, stepId) ==
  IF ShortCircuits(persisted.status) THEN Undefined ELSE persisted.timeline.out[stepId]

\* runStep up to the body: BEGIN, SELECT FOR UPDATE, short-circuit or cache hit
\* (COMMIT), else UPDATE current_step_id and keep the transaction open
RunStepBegin(w) ==
  /\ AtCall(w, "run")
  /\ lock = NoWorker
  /\ LET stepId == Calls(w)[ip[w]].id IN
       IF ShortCircuits(row.status) \/ HasOutput(row.timeline, stepId)
         THEN /\ ip' = [ip EXCEPT ![w] = @ + 1]
              /\ returned' = [returned EXCEPT ![w] = StepReturn(row, stepId)]
              /\ UNCHANGED <<lock, pc>>
         ELSE /\ lock' = w
              /\ pc' = [pc EXCEPT ![w] = "body"]
              /\ UNCHANGED <<ip, returned>>
  /\ UNCHANGED <<featureVars, created, row, queue, job, run, loaded, apiCalls, throws, invoked, succeeded, observed, starts>>

\* the row runStep commits after the body returned: current_step_id and the
\* dispatch's own timeline copy merged with the step's output
StepCommittedRow(persisted, r, stepId) ==
  [persisted EXCEPT !.currentStepId = stepId,
                    !.timeline = MergeOutput(r.timeline, stepId, BodyResult(stepId))]

\* the body returns: UPDATE timeline, COMMIT
RunStepBodyReturns(w) ==
  /\ pc[w] = "body"
  /\ LET stepId == Calls(w)[ip[w]].id IN
       /\ row' = StepCommittedRow(row, run[w], stepId)
       /\ run' = [run EXCEPT ![w].timeline = MergeOutput(@, stepId, BodyResult(stepId))]
       /\ invoked' = [invoked EXCEPT ![stepId] = @ + 1]
       /\ succeeded' = [succeeded EXCEPT ![stepId] = @ + 1]
       /\ returned' = [returned EXCEPT ![w] = BodyResult(stepId)]
  /\ lock' = NoWorker
  /\ pc' = [pc EXCEPT ![w] = "handler"]
  /\ ip' = [ip EXCEPT ![w] = @ + 1]
  /\ UNCHANGED <<featureVars, created, queue, job, loaded, apiCalls, throws, observed, starts>>

\* the body throws: the FAILED update of runStep's catch is rolled back with
\* the transaction, the error reaches the catch of handleWorkflowRun
RunStepBodyThrows(w) ==
  /\ pc[w] = "body"
  /\ MayThrow(Calls(w)[ip[w]].id)
  /\ throws < MaxThrows
  /\ throws' = throws + 1
  /\ invoked' = [invoked EXCEPT ![Calls(w)[ip[w]].id] = @ + 1]
  /\ lock' = NoWorker
  /\ pc' = [pc EXCEPT ![w] = "catch"]
  /\ UNCHANGED <<featureVars, returned, created, row, queue, job, run, loaded, ip, apiCalls, succeeded, observed, starts>>

\* the delayed job of waitUntilDate, deliverable once its date has passed
TimerJob(stepId) == [event |-> WaitUntilEventName(stepId), data |-> "date"]

\* the queue after a step.waitFor / pause / waitUntil call returned:
\* waitUntilDate sends its delayed job once waitForEvent has returned
AfterWaitQueue(call) ==
  IF call.type = "waitUntil" THEN Send(TimerJob(call.id)) ELSE queue

\* what step.waitFor returns and step.waitUntil discards
WaitReturn(call, value) == IF call.type = "waitUntil" THEN Undefined ELSE value

\* waitForEvent, first half: getRun without lock; short-circuit or cache hit
WaitForRead(w) ==
  /\ AtCall(w, "waitFor") \/ AtCall(w, "waitUntil")
  /\ LET call == Calls(w)[ip[w]] IN
       IF ShortCircuits(row.status) \/ HasOutput(row.timeline, call.id)
         THEN /\ ip' = [ip EXCEPT ![w] = @ + 1]
              /\ returned' = [returned EXCEPT ![w] = WaitReturn(call, StepReturn(row, call.id))]
              /\ queue' = AfterWaitQueue(call)
              /\ UNCHANGED pc
         ELSE /\ pc' = [pc EXCEPT ![w] = "waitWrite"]
              /\ UNCHANGED <<ip, returned, queue>>
  /\ UNCHANGED <<featureVars, created, row, lock, job, run, loaded, apiCalls, throws, invoked, succeeded, observed, starts>>

\* faulty variant of PausedRow: the marker is written, the status is not
PausedRowStillRunning(persisted, r, stepId, eventName) ==
  [persisted EXCEPT !.currentStepId = stepId,
                    !.timeline = MergeWaitFor(r.timeline, stepId, eventName)]

\* the row waitForEvent writes: PAUSED on the step, with the wait-for marker
\* merged into the dispatch's own timeline copy
PausedRow(persisted, r, stepId, eventName) ==
  [persisted EXCEPT !.status = PAUSED, !.currentStepId = stepId, !.pausedAt = TRUE,
                    !.timeline = MergeWaitFor(r.timeline, stepId, eventName)]

\* waitForEvent, second half: UPDATE
WaitForWrite(w) ==
  /\ pc[w] = "waitWrite"
  /\ lock = NoWorker
  /\ LET call == Calls(w)[ip[w]] IN
       /\ row' = PausedRow(row, run[w], call.id, call.eventName)
       /\ run' = [run EXCEPT ![w].timeline = MergeWaitFor(@, call.id, call.eventName)]
       /\ queue' = AfterWaitQueue(call)
  /\ returned' = [returned EXCEPT ![w] = Undefined]
  /\ pc' = [pc EXCEPT ![w] = "handler"]
  /\ ip' = [ip EXCEPT ![w] = @ + 1]
  /\ UNCHANGED <<featureVars, created, lock, job, loaded, apiCalls, throws, invoked, succeeded, observed, starts>>

\* status === RUNNING && currentStepId === last static step id
MayComplete(r) ==
  /\ r.status = RUNNING
  /\ r.currentStepId = LastStepId(r.workflowId)

\* the handler returned: reload the run and decide whether to complete it
HandlerReturns(w) ==
  /\ pc[w] = "handler"
  /\ ip[w] > Len(Calls(w))
  /\ IF MayComplete(row)
       THEN /\ pc' = [pc EXCEPT ![w] = "complete"]
            /\ run' = [run EXCEPT ![w] = row]
            /\ UNCHANGED <<job, loaded, ip, returned>>
       ELSE Idle(w)
  /\ UNCHANGED <<featureVars, created, row, queue, lock, apiCalls, throws, invoked, succeeded, observed, starts>>

\* what the handler returns: the result of its last step.* call, or the
\* constant of a handler that makes no call
HandlerValue(w) == IF Len(Calls(w)) = 0 THEN HandlerResult ELSE returned[w]

\* result === undefined ? {} : result
Normalized(value) == IF value = Undefined THEN EmptyObject ELSE value

\* UPDATE status = completed, output = result ?? {}; then onSuccess and
\* onComplete, called inside the try block
Complete(w) ==
  /\ pc[w] = "complete"
  /\ lock = NoWorker
  /\ row' = [row EXCEPT !.status = COMPLETED, !.output = Normalized(HandlerValue(w))]
  /\ IF InvokeHook(HookOutcome(row.workflowId)) = "threw"
       THEN /\ pc' = [pc EXCEPT ![w] = "catch"]
            /\ UNCHANGED <<job, run, loaded, ip, returned>>
       ELSE Idle(w)
  /\ observed' = [observed EXCEPT !.onSuccess = @ + 1, !.onComplete = @ + 1]
  /\ UNCHANGED <<featureVars, created, queue, lock, apiCalls, throws, invoked, succeeded, starts>>

\* faulty variant of RetriesRemain: one retry too many
RetriesRemainInclusive(r) == r.retryCount <= r.maxRetries

\* run.retryCount < run.maxRetries, on the dispatch's own copy of the run
RetriesRemain(r) == r.retryCount < r.maxRetries

\* faulty variant of CaughtRow: the retry is not counted
CaughtRowUncounted(persisted, r) ==
  IF RetriesRemain(r)
    THEN persisted
    ELSE [persisted EXCEPT !.status = FAILED, !.error = "Boom!"]

\* the row the catch block writes
CaughtRow(persisted, r) ==
  IF RetriesRemain(r)
    THEN [persisted EXCEPT !.retryCount = r.retryCount + 1]
    ELSE [persisted EXCEPT !.status = FAILED, !.error = "Boom!"]

RECURSIVE Power(_, _)
\* base ** exponent
Power(base, exponent) ==
  IF exponent = 0 THEN 1 ELSE base * Power(base, exponent - 1)

\* faulty variant of RetryDelay: computed from the count after the increment
RetryDelayAfterIncrement(retryCount) == Power(2, retryCount + 1) * 1000

\* retryDelay = 2 ** run.retryCount * 1000, in ms, from the count the
\* dispatch loaded; the retry job is sent with startAfter = now + retryDelay
RetryDelay(retryCount) == Power(2, retryCount) * 1000

\* what the catch block does besides the row: a retry job sent after its
\* delay, or onFailure, onComplete and the error rethrown to the queue
CaughtObserved(r) ==
  IF RetriesRemain(r)
    THEN [observed EXCEPT !.retryJobs = @ + 1, !.retryDelay = RetryDelay(r.retryCount)]
    ELSE [observed EXCEPT !.onFailure = @ + 1, !.onComplete = @ + 1, !.rethrown = @ + 1]

\* catch of handleWorkflowRun: count the retry and re-enqueue the job, or
\* mark the run FAILED and rethrow
Catch(w) ==
  /\ pc[w] = "catch"
  /\ lock = NoWorker
  /\ row' = CaughtRow(row, run[w])
  /\ queue' = IF RetriesRemain(run[w]) THEN Send(NoJob) ELSE queue
  /\ Idle(w)
  /\ observed' = CaughtObserved(run[w])
  /\ UNCHANGED <<featureVars, created, lock, apiCalls, throws, invoked, succeeded, starts>>

Next ==
  \/ \E workflowId \in StartedIds, retries \in 0..MaxRetriesOpt, input \in Inputs :
       StartWorkflow(workflowId, retries, input)
  \/ apiCalls < MaxRacingApiCalls /\ PauseWorkflow
  \/ apiCalls < MaxRacingApiCalls /\ CancelWorkflow
  \/ apiCalls < MaxRacingApiCalls /\ \E data \in {"d1", Undefined} : TriggerEvent("e", data)
  \/ apiCalls < MaxRacingApiCalls /\ ResumeWorkflow
  \/ \E w \in Workers : Dispatch(w)
  \/ \E w \in Workers : Unpause(w)
  \/ \E w \in Workers : RunStepBegin(w)
  \/ \E w \in Workers : RunStepBodyReturns(w)
  \/ \E w \in Workers : RunStepBodyThrows(w)
  \/ \E w \in Workers : WaitForRead(w)
  \/ \E w \in Workers : WaitForWrite(w)
  \/ \E w \in Workers : HandlerReturns(w)
  \/ \E w \in Workers : Complete(w)
  \/ \E w \in Workers : Catch(w)

Spec == Init /\ [][Next]_vars

(***************************************************************************)
(* The same engine driven by a client that waits for the dispatcher: API   *)
(* calls are made only while no dispatch is in progress, and one job is    *)
(* dispatched at a time.  Workers poll the queue and every started         *)
(* database call returns, so the dispatcher's steps are weakly fair.       *)
(***************************************************************************)
AllIdle == \A w \in Workers : pc[w] = "idle"

WorkerStep(w) ==
  \/ Unpause(w)
  \/ RunStepBegin(w)
  \/ RunStepBodyReturns(w)
  \/ RunStepBodyThrows(w)
  \/ WaitForRead(w)
  \/ WaitForWrite(w)
  \/ HandlerReturns(w)
  \/ Complete(w)
  \/ Catch(w)

SerialDispatcher == \E w \in Workers : (AllIdle /\ Dispatch(w)) \/ WorkerStep(w)

NextSerial ==
  \/ \E workflowId \in StartedIds, retries \in 0..MaxRetriesOpt, input \in Inputs :
       StartWorkflow(workflowId, retries, input)
  \/ AllIdle /\ PauseWorkflow
  \/ AllIdle /\ CancelWorkflow
  \/ AllIdle /\ \E data \in {"d1", Undefined} : TriggerEvent("e", data)
  \/ AllIdle /\ ResumeWorkflow
  \/ SerialDispatcher

SerialSpec == Init /\ [][NextSerial]_vars /\ WF_vars(SerialDispatcher)

(***************************************************************************)
(* A run of "timer", whose handler is one step.waitUntil call, dispatched  *)
(* one job at a time; the number of dispatches followed is bounded.        *)
(***************************************************************************)
NextTimer ==
  \/ StartWorkflow("timer", 0, "ok")
  \/ CancelWorkflow
  \/ AllIdle /\ TriggerEvent("e", Undefined)
  \/ \E w \in Workers : AllIdle /\ observed.onStart < MaxTimerDispatches /\ Dispatch(w)
  \/ \E w \in Workers : Unpause(w)
  \/ \E w \in Workers : WaitForRead(w)
  \/ \E w \in Workers : WaitForWrite(w)
  \/ \E w \in Workers : HandlerReturns(w)
  \/ \E w \in Workers : Complete(w)

TimerSpec == Init /\ [][NextTimer]_vars

(***************************************************************************)
(* Clients that call startWorkflow repeatedly with the same workflow id    *)
(* and idempotency key, some calls failing to enqueue, while the first run *)
(* is dispatched, paused or cancelled.                                     *)
(***************************************************************************)
NextStart ==
  \/ \E workflowId \in StartedIds, retries \in 0..MaxRetriesOpt, input \in Inputs :
       StartWorkflow(workflowId, retries, input)
  \/ \E workflowId \in RequestedIds, input \in Inputs : StartWorkflowRejected(workflowId, input)
  \/ StartWorkflowAgain
  \/ StartWorkflowSendFails
  \/ AllIdle /\ PauseWorkflow
  \/ AllIdle /\ CancelWorkflow
  \/ SerialDispatcher

StartSpec == Init /\ [][NextStart]_vars

(***************************************************************************)
(* Clients that pause a run and resume it either way, with resumeWorkflow  *)
(* or with triggerEvent of the internal pause event, at any moment of the  *)
(* dispatches.                                                             *)
(***************************************************************************)
NextResume ==
  \/ \E workflowId \in StartedIds, retries \in 0..MaxRetriesOpt, input \in Inputs :
       StartWorkflow(workflowId, retries, input)
  \/ PauseWorkflow
  \/ ResumeWorkflow
  \/ TriggerPauseEvent
  \/ \E w \in Workers : Dispatch(w) \/ WorkerStep(w)

ResumeSpec == Init /\ [][NextResume]_vars

(***************************************************************************)
(* Runs started with up to MaxBackoffRetries retries, one dispatch at a    *)
(* time, to follow the delay of each retry job.                            *)
(***************************************************************************)
NextBackoff ==
  \/ \E workflowId \in StartedIds, retries \in 0..MaxBackoffRetries, input \in Inputs :
       StartWorkflow(workflowId, retries, input)
  \/ AllIdle /\ TriggerEvent("e", Undefined)
  \/ SerialDispatcher

BackoffSpec == Init /\ [][NextBackoff]_vars

(***************************************************************************)
(* Clients that pass any resource id to the API, before and after the run  *)
(* is created, while the dispatcher is idle.                               *)
(***************************************************************************)
NextResource ==
  \/ \E workflowId \in StartedIds, retries \in 0..MaxRetriesOpt, input \in Inputs :
       StartWorkflow(workflowId, retries, input)
  \/ AllIdle /\ \E resourceId \in ResourceIds : GetRun(resourceId)
  \/ AllIdle /\ \E resourceId \in ResourceIds : PauseWorkflowAs(resourceId)
  \/ AllIdle /\ \E resourceId \in ResourceIds : CancelWorkflowAs(resourceId)
  \/ AllIdle /\ \E resourceId \in ResourceIds : TriggerEventAs(resourceId, "e", Undefined)
  \/ SerialDispatcher

ResourceSpec == Init /\ [][NextResource]_vars

(***************************************************************************)
(* Properties.  Each is checked under the specification that produces its *)
(* case: Spec for API calls racing with NumWorkers dispatches, SerialSpec  *)
(* for one dispatch at a time, the others for the calls they are named     *)
(* after.                                                                  *)
(***************************************************************************)

\* C1: a step body that has returned successfully is never executed
\* successfully again for the same run, whatever the number of dispatches,
\* retries, resumes or concurrent deliveries of the run's job.
C1_StepSucceedsAtMostOnce == \A s \in StepIds : succeeded[s] <= 1

\* C2: once the timeline holds an output for a step id, no later write
\* changes or removes that output.
C2_OutputWriteOnce ==
  [][\A s \in StepIds :
       HasOutput(row.timeline, s) => row'.timeline.out[s] = row.timeline.out[s]]_vars

\* C3: whenever the status becomes COMPLETED, the timeline holds an output
\* for the last step of the workflow's static step list.
C3_CompletedHasLastStepOutput ==
  [][(row.status # COMPLETED /\ row'.status = COMPLETED)
       => HasOutput(row'.timeline, LastStepId(row'.workflowId))]_vars

\* C4: whenever the status is PAUSED, however it got there (step.waitFor or
\* the pauseWorkflow API), the timeline holds a wait-for marker for
\* currentStepId and no output for currentStepId.
C4_PausedIsWaiting ==
  (created /\ row.status = PAUSED)
    => /\ row.timeline.waitFor[row.currentStepId] # Undefined
       /\ ~HasOutput(row.timeline, row.currentStepId)

\* C5: 0 <= retryCount <= maxRetries always, a run is never FAILED while
\* retryCount < maxRetries, and a dispatch that fails with retries left
\* raises retryCount by exactly one and leaves the status as it was.
C5_RetryCountBounded ==
  /\ [](/\ row.retryCount <= row.maxRetries
        /\ row.status = FAILED => row.retryCount >= row.maxRetries)
  /\ [][\A w \in Workers :
          (pc[w] = "catch" /\ pc'[w] # "catch" /\ RetriesRemain(run[w]))
            => (row'.retryCount = row.retryCount + 1 /\ row'.status = row.status)]_vars

\* C6: a dispatch that starts when the run is already COMPLETED changes
\* neither the status nor the output of the run, and a dispatch that finds
\* the run CANCELLED does not invoke the handler.
C6_TerminalRunUntouched ==
  /\ [][\A w \in Workers :
          (loaded[w].status = COMPLETED /\ row.status = COMPLETED
             /\ <<pc[w], ip[w]>> # <<pc'[w], ip'[w]>>)
            => (row'.status = row.status /\ row'.output = row.output)]_vars
  /\ [][\A w \in Workers :
          (pc[w] = "idle" /\ pc'[w] # "idle") => row.status # CANCELLED]_vars

\* C7: once cancelWorkflow has committed CANCELLED, no write of a dispatch,
\* in particular of one in flight when the run was cancelled, replaces the
\* status.
C7_CancelledIsFinal ==
  [][(row.status = CANCELLED /\ apiCalls' = apiCalls) => row'.status = CANCELLED]_vars

EventJob(d) == [event |-> "e", data |-> d]

\* the run is PAUSED on step s and the timeline holds the marker for event e
PausedOn(s, e) ==
  /\ created
  /\ row.status = PAUSED
  /\ row.currentStepId = s
  /\ row.timeline.waitFor[s] = e

\* the run is RUNNING again with the event's data as the output of s, and
\* the handler is past s
Resumed(s, d) ==
  /\ row.status = RUNNING
  /\ ~row.pausedAt
  /\ row.timeline.out[s] = (IF d = Undefined THEN EmptyObject ELSE d)
  /\ \E w \in Workers : pc[w] = "handler" /\ ip[w] = 3

DispatchEnds(w) == pc[w] # "idle" /\ pc'[w] = "idle"

\* worker w dispatches a job whose event is not the one the PAUSED run it
\* loaded waits for on step s (a job without event included)
StaleOn(w, s) ==
  /\ loaded[w].status = PAUSED
  /\ loaded[w].currentStepId = s
  /\ loaded[w].timeline.waitFor[s] # Undefined
  /\ job[w].event # loaded[w].timeline.waitFor[s]

C10_RetryThenComplete ==
  /\ (created /\ row.workflowId = "retry")
       ~> \/ /\ row.status = COMPLETED
             /\ row.retryCount = throws
             /\ invoked["B"] = throws + 1
          \/ throws > row.maxRetries
          \/ apiCalls > 0
  /\ []((row.workflowId = "retry" /\ row.status = COMPLETED /\ apiCalls = 0)
          => (row.retryCount = throws /\ invoked["B"] = throws + 1))

\* C10: a run of "retry" completed after at least one throw
C10_CompletedAfterRetry ==
  /\ row.workflowId = "retry"
  /\ row.status = COMPLETED
  /\ apiCalls = 0
  /\ throws >= 1
  /\ row.retryCount = throws
  /\ invoked["B"] = throws + 1

\* the run of "retry" has FAILED after its body threw on every invocation:
\* N + 1 invocations, N retry jobs, the message recorded, one rethrow
ExhaustedRetries ==
  /\ row.status = FAILED
  /\ row.error = "Boom!"
  /\ row.retryCount = row.maxRetries
  /\ invoked["B"] = row.maxRetries + 1
  /\ observed.retryJobs = row.maxRetries
  /\ observed.rethrown = 1

\* C11: a run of "retry" with maxRetries = N whose step body always throws,
\* each job delivered once and no API call made, ends FAILED with the thrown
\* message after exactly N + 1 invocations of the body and exactly N retry
\* jobs, the last dispatch rethrowing; with N = 0 the first failure is final.
C11_AlwaysThrowingRunFails ==
  /\ (created /\ row.workflowId = "retry")
       ~> (ExhaustedRetries \/ succeeded["B"] > 0 \/ apiCalls > 0)
  /\ []((row.workflowId = "retry" /\ apiCalls = 0 /\ succeeded["B"] = 0)
          => /\ invoked["B"] <= row.maxRetries + 1
             /\ observed.retryJobs <= row.maxRetries
             /\ row.status = FAILED => ExhaustedRetries)

\* C11: a run with one retry has FAILED after two throws
C11_FailedAfterRetry ==
  /\ row.workflowId = "retry"
  /\ row.maxRetries = 1
  /\ apiCalls = 0
  /\ succeeded["B"] = 0
  /\ ExhaustedRetries

\* C12: over the whole life of a run the onStart hook is invoked at most
\* once: on the first dispatch, and not on retries, on dispatches that resume
\* the run after a wait or a pause, or on stale or duplicate deliveries.
C12_OnStartOnce == observed.onStart <= 1

\* C13: onComplete is invoked once when the run becomes COMPLETED (after
\* onSuccess) or FAILED with its retries exhausted (after onFailure), and
\* never a second time for the same run, whatever jobs are delivered again,
\* concurrently or late.
C13_OnCompleteOnce ==
  /\ observed.onComplete <= 1
  /\ observed.onComplete = observed.onSuccess + observed.onFailure

\* C14: startWorkflow called with the idempotency key of an existing run of
\* the same workflow whose status is RUNNING or PAUSED inserts no run row and
\* enqueues no job (it returns the existing run).
C14_SameKeyReturnsExistingRun ==
  [][(created /\ row.status \in {RUNNING, PAUSED} /\ starts'.failed = starts.failed)
       => (starts'.rows = starts.rows /\ starts'.jobs = starts.jobs)]_vars

Executing(workflowId) ==
  {w \in Workers : pc[w] \in {"handler", "body", "waitWrite"}
                   /\ run[w].workflowId = workflowId}

\* C15: for a workflow defined with concurrency {limit: L}, at most L
\* dispatches of the workflow execute the handler at the same time, retries
\* and event resumptions included.
C15_ConcurrencyLimit ==
  \A workflowId \in WorkflowIds :
    \A concurrency \in workflows[workflowId].concurrency :
      Cardinality(Executing(workflowId)) <= concurrency.limit

\* C17: in "main", whose handler calls step.run("A") before step.run("B"),
\* the body of B never executes in any dispatch unless the output of A is
\* committed in the persisted timeline.
C17_StepOrder ==
  \A w \in Workers :
    (pc[w] = "body" /\ Calls(w)[ip[w]].id = "B" /\ run[w].workflowId = "main")
      => HasOutput(row.timeline, "A")

\* step ids the handler of the workflow passes through
CalledStepIds(workflowId) ==
  {workflows[workflowId].calls[i].id : i \in DOMAIN workflows[workflowId].calls}

\* C18: in every state where the run is COMPLETED its output is set and the
\* persisted timeline holds an output for every step the handler passed
\* through on the completing dispatch.
C18_CompletedHasAllOutputs ==
  (created /\ row.status = COMPLETED)
    => /\ row.output # Undefined
       /\ \A s \in CalledStepIds(row.workflowId) : HasOutput(row.timeline, s)

\* COMPLETED, CANCELLED, or FAILED with the retries exhausted
Terminal(r) ==
  \/ r.status \in {COMPLETED, CANCELLED}
  \/ r.status = FAILED /\ r.retryCount >= r.maxRetries

\* C19: pauseWorkflow and cancelWorkflow applied to a run in a terminal
\* status (COMPLETED, CANCELLED, FAILED with retryCount >= maxRetries) leave
\* its status unchanged.
C19_ApiKeepsTerminalStatus ==
  [][(created /\ Terminal(row) /\ apiCalls' = apiCalls + 1)
       => row'.status = row.status]_vars

\* the dispatch of worker w replays a handler against a timeline that held
\* an output for every step the handler calls when the dispatch loaded it
Replaying(w) ==
  /\ pc[w] # "idle"
  /\ CalledStepIds(loaded[w].workflowId) # {}
  /\ \A s \in CalledStepIds(loaded[w].workflowId) : HasOutput(loaded[w].timeline, s)

LastCallId(w) == Calls(w)[Len(Calls(w))].id

\* C20: the steps of a dispatch that replays a handler against a timeline
\* holding an output for every step it calls invoke no step body and write
\* no timeline entry, each step call returns the persisted output of its
\* step, and the value the handler returns, when the run is completed
\* again, is the one of the original execution.
C20_ReplayIsPure ==
  [][\A w \in Workers :
       (Replaying(w) /\ (pc'[w] # pc[w] \/ ip'[w] # ip[w]))
         => /\ invoked' = invoked
            /\ row'.timeline = row.timeline
            /\ ip'[w] = ip[w] + 1
                 => returned'[w] = row.timeline.out[Calls(w)[ip[w]].id]
            /\ (pc[w] = "complete" /\ pc'[w] = "idle")
                 => /\ row'.output = row.timeline.out[LastCallId(w)]
                    /\ row.output # Undefined => row'.output = row.output]_vars


\* the job the other of the two calls, resumeWorkflow and triggerEvent of
\* the internal pause event without data, would have enqueued
Twin(j) ==
  [j EXCEPT !.data = IF j.data = Undefined THEN EmptyObject ELSE Undefined]

\* a dispatch of a job of the internal pause event writes the row that the
\* dispatch of the twin job would have written, and goes on the same way
SameAsTwin ==
  \A w \in Workers :
    (job[w].event = PAUSE_EVENT_NAME /\ pc[w] = "unpause" /\ pc'[w] # "unpause")
      => /\ row' = UnpausedRow(row, run[w], Twin(job[w]))
         /\ pc'[w] = "handler"

\* C21 as stated: resumeWorkflow enqueues the job that triggerEvent of
\* '__internal_pause' (no data) enqueues, and the dispatch of either job
\* leaves the run in the same state (status, output {} of the paused step).
C21_ResumeIsTriggerEvent ==
  [][(ResumeWorkflow => TriggerPauseEvent) /\ SameAsTwin]_vars

\* C21, amended: the two calls enqueue jobs of the same event that differ
\* only in the event's data ({} against none), and the dispatch of either
\* job leaves the run in the same state.
C21_ResumeActsAsTriggerEvent ==
  [][/\ (ResumeWorkflow \/ TriggerPauseEvent)
          => \E d \in {EmptyObject, Undefined} :
               queue' = Send([event |-> PAUSE_EVENT_NAME, data |-> d])
     /\ SameAsTwin]_vars

\* C21: a run paused on its step.pause was resumed by the job of
\* triggerEvent without data, and the step's output is {}
C21_ResumedByTriggerEvent ==
  \E w \in Workers :
    /\ job[w] = [event |-> PAUSE_EVENT_NAME, data |-> Undefined]
    /\ loaded[w].status = PAUSED
    /\ loaded[w].workflowId = "manual"
    /\ pc[w] = "handler"
    /\ row.status = RUNNING
    /\ row.timeline.out["W"] = EmptyObject


\* C22: in a run whose lifecycle hooks throw, a dispatch enters its catch
\* block (where a retry is counted and enqueued, or the run is failed) only
\* because a step body threw, and the dispatch that completes the run ends
\* with the status COMPLETED, the error and retryCount as they were and no
\* job enqueued: the run goes the way it goes when the hooks return.
C22_HookThrowChangesNothing ==
  [][\A w \in Workers :
       workflows[row.workflowId].hooksThrow
         => /\ (pc[w] # "catch" /\ pc'[w] = "catch") => pc[w] = "body"
            /\ (pc[w] = "complete" /\ pc'[w] # "complete")
                 => /\ pc'[w] = "idle"
                    /\ row'.status = COMPLETED
                    /\ row'.error = row.error
                    /\ row'.retryCount = row.retryCount
                    /\ queue' = queue]_vars

\* C22: a run whose hooks throw was retried once and is COMPLETED, onStart,
\* onSuccess and onComplete having been invoked
C22_CompletedDespiteHooks ==
  /\ created
  /\ workflows[row.workflowId].hooksThrow
  /\ row.status = COMPLETED
  /\ row.retryCount = 1
  /\ row.error = Undefined
  /\ observed.onStart >= 1
  /\ observed.onSuccess = 1
  /\ observed.onComplete = 1
  /\ observed.retryJobs = 1


\* startWorkflow is called with an unregistered workflow id, a workflow
\* without steps, or an input the workflow's schema rejects
BadStart(workflowId, input) ==
  \/ workflowId \notin WorkflowIds
  \/ /\ workflowId \in WorkflowIds
     /\ \/ Len(workflows[workflowId].steps) = 0
        \/ \E schema \in workflows[workflowId].inputSchema : input \notin schema.accepts

\* C23: startWorkflow with an unregistered workflow id, with a workflow
\* whose static step list is empty, or with an input the input schema
\* rejects fails with an error and leaves the run rows and the enqueued
\* jobs as they were.
C23_BadStartPersistsNothing ==
  [][\A workflowId \in RequestedIds, retries \in 0..MaxRetriesOpt, input \in Inputs :
       (/\ BadStart(workflowId, input)
        /\ \/ StartWorkflow(workflowId, retries, input)
           \/ StartWorkflowRejected(workflowId, input))
         => /\ starts'.rejected = starts.rejected + 1
            /\ starts'.rows = starts.rows
            /\ starts'.jobs = starts.jobs
            /\ created' = created
            /\ row' = row
            /\ queue' = queue]_vars

\* C23: a start was rejected, then a run of the workflow with the input
\* schema was created with an accepted input and dispatched
C23_RejectedThenStarted ==
  /\ starts.rejected = 1
  /\ starts.rows = 1
  /\ starts.jobs = 1
  /\ created
  /\ row.workflowId = "conditional"
  /\ row.status = COMPLETED


\* the API call names a run that does not exist, or passes a resource id
\* that is not the run's
WrongRun(resourceId) ==
  \/ ~created
  \/ resourceId # Undefined /\ resourceId # row.resourceId

\* C24: getRun, pauseWorkflow, cancelWorkflow and triggerEvent called with
\* a resource id that differs from the run's, or for a run that does not
\* exist, throw WorkflowRunNotFoundError, leave the run row unchanged and
\* enqueue no job.
C24_WrongResourceNotFound ==
  [][\A resourceId \in ResourceIds :
       (/\ WrongRun(resourceId)
        /\ \/ GetRun(resourceId)
           \/ PauseWorkflowAs(resourceId)
           \/ CancelWorkflowAs(resourceId)
           \/ TriggerEventAs(resourceId, "e", Undefined))
         => /\ observed'.notFound = observed.notFound + 1
            /\ row' = row
            /\ queue' = queue]_vars


\* C25: for every run, checkProgress returns completionPercentage 100 if
\* and only if the status is COMPLETED; it is never 100 for a RUNNING,
\* PAUSED, FAILED or CANCELLED run, whatever the timeline and currentStepId
\* hold.
C25_HundredIffCompleted ==
  created => (CompletionPercentage(row) = 10000 <=> row.status = COMPLETED)


\* C26: for every limit (0, negative values and values above 100 included)
\* and any number of matching rows, getRuns returns at most
\* min(max(limit, 1), 100) items.
C26_PageSizeClamped ==
  listing.called
    => listing.items <= (IF listing.limit < 1 THEN 1
                         ELSE IF listing.limit > 100 THEN 100 ELSE listing.limit)


\* a dispatch of worker w ends by counting a retry and sending the retry job
RetrySent(w) ==
  /\ pc[w] = "catch"
  /\ pc'[w] = "idle"
  /\ observed'.retryJobs = observed.retryJobs + 1

\* 1000, 2000, 4000, ...: the delay in ms of the k-th retry with the defaults
DefaultDelays == <<1000, 2000, 4000, 8000, 16000>>

\* C27: the k-th retry of a run, the one that makes retryCount equal k, is
\* re-enqueued with the delay 2^(k-1) x 1000 ms (factor 2, minDelay 1000 ms,
\* no cap: 1000, 2000, 4000, ...), for runs of workflows defined without a
\* retry option.
C27_DefaultBackoff ==
  [][\A w \in Workers :
       (RetrySent(w) /\ workflows[row.workflowId].retry = {})
         => observed'.retryDelay = DefaultDelays[row'.retryCount]]_vars

\* C27: the second retry of a run has been sent, 2000 ms after the failure
C27_SecondRetrySent ==
  /\ created
  /\ workflows[row.workflowId].retry = {}
  /\ row.retryCount = 2
  /\ observed.retryJobs = 2
  /\ observed.retryDelay = 2000

\* C28: for a workflow defined with {backoff: {factor, minDelay, maxDelay,
\* jitter: false}}, the delay of the k-th retry is
\* min(factor^(k-1) x minDelay, maxDelay): with factor 10, minDelay 500 and
\* maxDelay 1500 the retries 1, 2, 3 are delayed by 500, 1500, 1500 ms.
C28_ConfiguredBackoff ==
  [][\A w \in Workers :
       RetrySent(w)
         => \A config \in workflows[row.workflowId].retry :
              LET k == row'.retryCount
                  delay == Power(config.factor, k - 1) * config.minDelay
              IN observed'.retryDelay
                   = (IF delay < config.maxDelay THEN delay ELSE config.maxDelay)]_vars


\* the definition cannot be registered: its id is registered already, its
\* handler calls a step id twice, its cron expression is invalid, or it is
\* a cron workflow whose input schema rejects {}
Unregistrable(definition) ==
  \/ \E d \in registry.definitions : d.id = definition.id
  \/ \E i \in 1..Len(definition.stepCalls) :
       \E k \in (i + 1)..Len(definition.stepCalls) :
         definition.stepCalls[i] = definition.stepCalls[k]
  \/ \E cron \in definition.cron : cron.expression # "* * * * *"
  \/ /\ definition.cron # {}
     /\ \E schema \in definition.inputSchema : ~schema.acceptsEmpty

\* C29: registerWorkflow fails and leaves the registry unchanged when the id
\* is already registered, when the handler's step list has a duplicate step
\* id, when the cron expression is invalid, or when a cron workflow's input
\* schema rejects {}; a failed registration neither replaces nor removes a
\* definition.
C29_FailedRegistrationKeepsRegistry ==
  [][\A definition \in Definitions :
       (Unregistrable(definition) /\ RegisterWorkflow(definition))
         => /\ registry'.errors = registry.errors + 1
            /\ registry'.definitions = registry.definitions]_vars

\* C29: registrations have failed while two definitions are registered
C29_RegistrationsFailed ==
  /\ registry.errors = MaxRegisterErrors
  /\ Cardinality(registry.definitions) = 2


\* the completedAt of the most recent COMPLETED cron-triggered run, as a set:
\* empty when no cron-triggered run has completed
LastCronCompletion(runs) ==
  {t \in UNION {runs[i].completedAt : i \in 1..Len(runs)} :
     \E i \in 1..Len(runs) :
       /\ runs[i].cron
       /\ runs[i].status = COMPLETED
       /\ runs[i].completedAt = {t}
       /\ \A k \in 1..Len(runs) :
            (runs[k].cron /\ runs[k].status = COMPLETED)
              => \A u \in runs[k].completedAt : u <= t}

\* C30: the schedule.lastTimestamp built for a cron-triggered run is
\* undefined when no cron-triggered run of the workflow has COMPLETED, and
\* otherwise the completedAt of the most recent COMPLETED cron-triggered
\* run; runs started through startWorkflow never influence it.
C30_LastTimestampFromCronRuns ==
  [][\A i \in 1..MaxCronRuns :
       BuildScheduleContext(i)
         => \A schedule \in cronRuns'.schedule :
              schedule.lastTimestamp = LastCronCompletion(cronRuns.runs)]_vars

\* C31: runMigrations is idempotent and additive: every run of it that returns
\* leaves the current schema, raises no error, and after the first run a
\* further run changes no schema object; no object and no row is ever dropped.
C31_MigrationsIdempotentAdditive ==
  [][/\ database.objects \subseteq database'.objects
     /\ database'.rows >= database.rows
     /\ database'.errors = 0
     /\ database'.runs > database.runs => database'.objects = CurrentSchema
     /\ database.runs >= 1 /\ database.pc # "idle" => database'.objects = database.objects]_vars

\* a second runMigrations has returned on a table that the earlier version
\* created and that holds rows
C31_MigratedTwiceFromPreCron ==
  /\ database.runs = 2
  /\ database.found = {PreCronSchema}
  /\ database.rows >= 1
  /\ database.objects = CurrentSchema

\* the dispatch of worker w has itself put the run into PAUSED: its own copy of
\* the timeline holds a wait-for marker that the run it loaded did not hold
PausedHere(w) ==
  /\ pc[w] = "handler"
  /\ loaded[w].status # PAUSED
  /\ \E s \in StepIds : /\ run[w].timeline.waitFor[s] # Undefined
                        /\ loaded[w].timeline.waitFor[s] = Undefined

\* C32: in the dispatch in which a step.waitFor / pause / waitUntil call puts
\* the run into PAUSED, no step body is executed after that call and the
\* dispatch does not go on to mark the run COMPLETED, also when the matching
\* event job is dispatched by another worker meanwhile.
C32_NothingRunsAfterPausing ==
  [][\A w \in Workers : PausedHere(w) => pc'[w] \notin {"body", "complete"}]_vars

\* C33: while the body of step.run(S) executes, no worker holds the run's row
\* lock (no transaction is open, so cancelWorkflow, pauseWorkflow, getRun and
\* checkProgress proceed) and the committed row has currentStepId = S.
C33_BodyRunsOutsideTransaction ==
  \A w \in Workers :
    pc[w] = "body" => /\ lock = NoWorker
                      /\ row.currentStepId = Calls(w)[ip[w]].id

\* a delayed job of step.waitUntil(s) is enqueued in this step
TimerSent(s) == CopiesIn(TimerJob(s), queue') > CopiesIn(TimerJob(s), queue)

\* C34: step.waitUntil(S) enqueues its delayed job only in the step in which
\* its dispatch moves the run to PAUSED on S; a replay that finds S's output
\* and a short-circuited call enqueue nothing.
C34_TimerSentOnlyWhenPausing ==
  [][\A s \in StepIds :
       TimerSent(s) => /\ row'.status = PAUSED
                       /\ row'.currentStepId = s
                       /\ \E w \in Workers : pc[w] = "waitWrite" /\ pc'[w] = "handler"]_vars

\* the handler of worker w's dispatch returns in this step after every step on
\* its control path has an output, the run being RUNNING: no wait is pending
\* and nothing failed
ReturnsNormally(w) ==
  /\ pc[w] = "handler"
  /\ ip[w] > Len(Calls(w))
  /\ pc'[w] # "handler"
  /\ row.status = RUNNING
  /\ \A i \in 1..Len(Calls(w)) : HasOutput(row.timeline, Calls(w)[i].id)

\* C35: a dispatch whose handler has executed all the steps on its control
\* path and returns normally goes on to mark the run COMPLETED, also when the
\* last step executed is not the last entry of the static step list.
C35_NormalReturnCompletes ==
  [][\A w \in Workers : ReturnsNormally(w) => pc'[w] = "complete"]_vars

\* worker w dispatches a job carrying event "e" that it took while the run
\* was RUNNING and step s, a waitFor of "e" in the handler, had no output yet
EarlyEvent(w, s) ==
  /\ pc[w] # "idle"
  /\ job[w].event = "e"
  /\ loaded[w].status = RUNNING
  /\ ~HasOutput(loaded[w].timeline, s)
  /\ \E i \in 1..Len(Calls(w)) : Calls(w)[i] = WaitForCall(s, "e")

\* C36: an event job dispatched while its run is not PAUSED writes no output
\* for the step that waits for the event and is not remembered: its dispatch
\* ends with the run PAUSED on that step, still without output, so that only
\* another matching event resumes it (one dispatch at a time, no API call
\* during a dispatch).
C36_EarlyEventNotRemembered ==
  [][\A w \in Workers, s \in StepIds :
       EarlyEvent(w, s) =>
         /\ ~HasOutput(row'.timeline, s)
         /\ pc'[w] = "idle" => /\ row'.status = PAUSED
                               /\ row'.currentStepId = s
                               /\ row'.timeline.waitFor[s] = "e"]_vars

\* the handler of a dispatch of an early event job has returned, the run is
\* PAUSED on the waitFor step and holds no output for it
C36_PausedAfterEarlyEvent ==
  \E w \in Workers :
    /\ EarlyEvent(w, "W")
    /\ pc[w] = "handler"
    /\ ip[w] > Len(Calls(w))
    /\ row.status = PAUSED
    /\ row.currentStepId = "W"
    /\ ~HasOutput(row.timeline, "W")

\* C37: every job handed to the workflow-run worker callback is dispatched:
\* whatever the batchSize, the jobs acknowledged are the jobs whose run was
\* loaded and whose handler was replayed.
C37_EveryDeliveredJobDispatched == boss.acknowledged = boss.dispatched

\* C38: once start() with asEngine = true has returned, workers are subscribed
\* to the workflow-run queue, also when startWorkflow auto-started the engine
\* before.
C38_WorkersAfterStartAsEngine == boss.asEngine => boss.workers > 0

\* C39: every dispatch of a cron-triggered run is passed the same schedule
\* context: the lastTimestamp built for a dispatch of a run equals the one
\* built for its previous dispatch, also when another cron-triggered run of
\* the workflow has completed in between (all runs cron-triggered, the run
\* itself not completed).
C39_SameScheduleEveryDispatch ==
  [][\A old \in cronRuns.schedule, new \in cronRuns'.schedule :
       /\ old.run = new.run
       /\ cronRuns.runs[old.run].status = RUNNING
       /\ \A k \in 1..Len(cronRuns.runs) : cronRuns.runs[k].cron
       => new.lastTimestamp = old.lastTimestamp]_vars

\* C40: paging through getRuns with startingAfter = nextCursor until hasMore
\* is false returns every matching run exactly once, in created_at-descending
\* order, no run being inserted meanwhile, also when runs share a created_at.
C40_PagingReturnsEveryRunOnce ==
  paging.done =>
    /\ Len(paging.items) = Len(paging.table)
    /\ \A i \in 1..Len(paging.table) : \E k \in 1..Len(paging.items) : paging.items[k] = i
    /\ \A a, b \in 1..Len(paging.items) :
         a < b => paging.table[paging.items[a]] >= paging.table[paging.items[b]]

====
